---- MODULE Spec2Model ----
(***************************************************************************)
(* The resource-inventory scripts of the dashboard: the CSV updater        *)
(* (update-resources-csv-old.py, update-resources-csv.py), the scanner     *)
(* (coderef/build-source-of-truth.py), the merge (coderef/merge-and-       *)
(* dedupe.py) and the alias fixer (fix-csv.py).  A behaviour is one run of *)
(* one script; the variable script says which.                             *)
(*                                                                         *)
(* A table row of the updater and of fix-csv is a tuple                    *)
(*   <<Type, Server, Category, Name, Description, Status, Path>>           *)
(* (Python's row[0] is row[1] here); a row of merge-and-dedupe and of the  *)
(* scanner is a record with the fields of the CSV header.                  *)
(***************************************************************************)
EXTENDS Integers, Sequences, FiniteSets, TLC

VARIABLES
    script,         \* the script (or the function of one) that runs
    pc,             \* its position
    args,           \* the updater's command line flags
    csv_file,       \* data rows of the table the script reads
    scan,           \* rows the scanners extract in this run (the scanned table)
    scan_errors,    \* the errors the scanners record in this run
    rest_rows,      \* number of further extracted rows, distinct and valid
    command_files,  \* fix-csv: first line of <name>.md, <<>> when no such file
    directory,      \* scanner: the files of the scanned directory, in glob order
    files,          \* scanner: the files of the directory still to be read
    lookups,        \* timestamps: what git, front-matter and stat answer
    roots,          \* scans: the configured roots and what each holds
    resources,      \* the table the script holds in memory
    errors,         \* extractor.errors / scanner.errors
    validator_errors, \* CSVValidator.errors
    stamps,         \* timestamps: the (created, updated) returned
    exit_status,    \* process exit status, -1 while running
    wrote,          \* TRUE once the output file has been written
    written,        \* rows written to the output file, in file order
    encoding,       \* how the bytes of the table the script reads are encoded
    fs,             \* scaffolders: the filesystem under the project path
    results,        \* scaffolders: what the calls made so far returned
    ran,            \* scaffolders: the external commands run so far
    warnings,       \* the lines the table readers print as warnings
    unexpected      \* generator: the items reported as unexpected

vars == <<script, pc, args, csv_file, scan, scan_errors, rest_rows,
          command_files, directory, files, lookups, roots, resources, errors, validator_errors,
          stamps, exit_status, wrote, written, encoding, fs, results, ran,
          warnings, unexpected>>

\* The inputs of a run: no action changes them.
inputs == <<script, args, csv_file, scan, scan_errors, rest_rows,
            command_files, directory, lookups, roots, encoding>>

\* What the scaffolders change, and the table scripts leave alone.
scaffold == <<fs, results, ran>>

\* What a script prints about the table it reads and about the directories
\* it fills.
reports == <<warnings, unexpected>>

(***************************************************************************)
(* Bounds of the model.                                                    *)
(***************************************************************************)
MaxRows == 2

(***************************************************************************)
(* Python compares str by code point: the strings of the model's sort keys *)
(* in ascending order.                                                     *)
(***************************************************************************)
StrOrder ==
    << "", "/build", "/deploy", "Command", "Commands", "Documentation",
       "General", "Release", "ResourceSheet", "Schema", "Script", "Tab", "Tool",
       "Validator", "a", "assistant", "ci", "coderef-docs", "coderef-workflow",
       "papertrail", "stem" >>

Rank(s) == CHOOSE i \in 1..Len(StrOrder) : StrOrder[i] = s

StrLess(a, b) == Rank(a) < Rank(b)

\* Python's tuple comparison a < b, element by element.
RECURSIVE TupleLess(_, _)
TupleLess(a, b) ==
    IF a = <<>> THEN b # <<>>
    ELSE IF b = <<>> THEN FALSE
    ELSE IF Head(a) = Head(b) THEN TupleLess(Tail(a), Tail(b))
    ELSE StrLess(Head(a), Head(b))

\* sorted(rows, key=...) on pairs <<key, row>>.  Python's sort is stable: a
\* pair goes after every pair whose key is not greater.
RECURSIVE InsertSorted(_, _)
InsertSorted(p, s) ==
    IF s = <<>> THEN <<p>>
    ELSE IF TupleLess(p[1], Head(s)[1]) THEN <<p>> \o s
    ELSE <<Head(s)>> \o InsertSorted(p, Tail(s))

RECURSIVE sorted(_)
sorted(s) ==
    IF s = <<>> THEN <<>>
    ELSE InsertSorted(s[Len(s)], sorted(SubSeq(s, 1, Len(s) - 1)))

\* Sequences over S of length at most n.
BoundedSeq(S, n) == UNION {[1..k -> S] : k \in 0..n}

Range(s) == {s[i] : i \in 1..Len(s)}

(***************************************************************************)
(* Reading a table file.  The three readers try a list of encodings in     *)
(* turn.  A file of the model is                                           *)
(*   "utf-8"        UTF-8 without a byte-order mark (ASCII included),      *)
(*   "utf-8-sig"    UTF-8 with a byte-order mark,                          *)
(*   "utf-16"       UTF-16 with its byte-order mark,                       *)
(*   "cp1252"       cp1252 with a byte that is not valid UTF-8, of odd     *)
(*                  length (the utf-16 codec finds it truncated),          *)
(*   "cp1252-late"  as "cp1252", the byte being in the last row and past   *)
(*                  the first block the text layer decodes, so that the    *)
(*                  reader hands out the rows before it,                   *)
(*   "undecodable"  as "cp1252", with a byte cp1252 does not define,       *)
(*   "denied"       a file every open() of which raises OSError.           *)
(***************************************************************************)
Encodings == {"utf-8", "utf-8-sig", "utf-16", "cp1252", "cp1252-late",
              "undecodable", "denied"}

\* with open(path, 'r', encoding=tried) and the read of the whole file:
\* "ok", "bom" (decoded, with U+FEFF left before the first header name),
\* or the exception raised.  latin-1 decodes any bytes.  No reader tries
\* cp1252 or latin-1 on a file an earlier encoding of its list decodes.
decode(tried, actual) ==
    IF actual = "denied" THEN "OSError"
    ELSE IF tried = "latin-1" THEN "ok"
    ELSE IF tried = actual THEN "ok"
    ELSE IF tried = "cp1252" /\ actual = "cp1252-late" THEN "ok"
    ELSE IF tried = "utf-8-sig" /\ actual = "utf-8" THEN "ok"
    ELSE IF tried = "utf-8" /\ actual = "utf-8-sig" THEN "bom"
    ELSE "UnicodeDecodeError"

\* for encoding in encodings: try: ... return; except (UnicodeDecodeError,
\* UnicodeError): continue.  except_exception says whether the loop also has
\* an "except Exception: continue".  The result is how the first encoding
\* that does not raise decodes, "exhausted" when the loop ends without one,
\* "OSError" when that exception leaves the loop.
RECURSIVE try_encodings(_, _, _)
try_encodings(encodings, actual, except_exception) ==
    IF encodings = <<>> THEN "exhausted"
    ELSE LET r == decode(Head(encodings), actual)
         IN  IF r \in {"ok", "bom"} THEN r
             ELSE IF r = "OSError" /\ ~except_exception THEN "OSError"
             ELSE try_encodings(Tail(encodings), actual, except_exception)

\* for row in reader: the rows the loop has been given when the attempt
\* raises its decode error.
rows_before_error(tried, actual, file) ==
    IF actual = "cp1252-late" /\ tried \in {"utf-8", "utf-8-sig"} /\ file # <<>>
    THEN SubSeq(file, 1, Len(file) - 1)
    ELSE <<>>

\* The rows the attempts that raise have been given, in the order of the
\* attempts, up to the first attempt that does not raise.
RECURSIVE rows_of_failed_attempts(_, _, _)
rows_of_failed_attempts(encodings, actual, file) ==
    IF encodings = <<>> THEN <<>>
    ELSE IF decode(Head(encodings), actual) \in {"ok", "bom"} THEN <<>>
    ELSE rows_before_error(Head(encodings), actual, file)
         \o rows_of_failed_attempts(Tail(encodings), actual, file)

(***************************************************************************)
(* update-resources-csv-old.py                                             *)
(***************************************************************************)
\* key = (row[0], row[1], row[3])  # Type, Server, Name
RowKey(row) == <<row[1], row[2], row[4]>>

\* key=lambda x: (x[0], x[1], x[2], x[3])
SortKey(row) == <<row[1], row[2], row[3], row[4]>>

\* d[key] = row on a dict kept as the sequence of its values in insertion
\* order: an existing key keeps its position and gets the new value.
RECURSIVE DictSet(_, _)
DictSet(d, row) ==
    IF d = <<>> THEN <<row>>
    ELSE IF RowKey(Head(d)) = RowKey(row) THEN <<row>> \o Tail(d)
    ELSE <<Head(d)>> \o DictSet(Tail(d), row)

RECURSIVE DictSetAll(_, _)
DictSetAll(d, rows) ==
    IF rows = <<>> THEN d
    ELSE DictSetAll(DictSet(d, Head(rows)), Tail(rows))

\* read_existing_csv: the rows with 7 fields, keyed by (Type, Server, Name).
read_existing_csv(file) ==
    DictSetAll(<<>>, SelectSeq(file, LAMBDA row : Len(row) = 7))

\* read_existing_csv on a file: the encodings are tried in turn; when none
\* can be read the function prints a warning and returns the empty dict.
read_existing_encodings == <<"utf-8-sig", "utf-8", "utf-16", "cp1252", "latin-1">>

\* The lines an encoding loop with "except Exception as e: print(Warning...)"
\* prints: one for each attempt that raises something other than a decode
\* error, up to the first attempt that succeeds.
RECURSIVE attempt_warnings(_, _)
attempt_warnings(encodings, actual) ==
    IF encodings = <<>> THEN <<>>
    ELSE LET r == decode(Head(encodings), actual)
         IN  IF r \in {"ok", "bom"} THEN <<>>
             ELSE (IF r = "OSError" THEN << <<"Warning: Error", Head(encodings)>> >>
                   ELSE <<>>)
                  \o attempt_warnings(Tail(encodings), actual)

\* What read_existing_csv prints: the warnings of the attempts, and a last
\* line when no encoding could be read.  Nothing is printed for a row.
read_existing_csv_warnings(actual) ==
    attempt_warnings(read_existing_encodings, actual)
    \o (IF try_encodings(read_existing_encodings, actual, TRUE) \in {"ok", "bom"}
        THEN <<>> ELSE << <<"Warning: Could not read existing CSV">> >>)

\* existing is assigned once, before the loop: the entries of an attempt
\* that raises stay, and the next attempt assigns over them.
read_existing_csv_file(file, actual) ==
    LET seven(rows) == SelectSeq(rows, LAMBDA row : Len(row) = 7)
        failed == DictSetAll(<<>>, seven(rows_of_failed_attempts(
                                            read_existing_encodings, actual, file)))
    IN  IF try_encodings(read_existing_encodings, actual, TRUE) \in {"ok", "bom"}
        THEN DictSetAll(failed, seven(file))
        ELSE failed

\* Mutant of merge_resources: a field-by-field merge, in which an empty field
\* of the extracted row keeps the existing row's value.
RECURSIVE DictMergeFields(_, _)
DictMergeFields(d, row) ==
    IF d = <<>> THEN <<row>>
    ELSE IF RowKey(Head(d)) = RowKey(row)
    THEN << [f \in 1..Len(row) |-> IF row[f] # "" THEN row[f] ELSE Head(d)[f]] >>
            \o Tail(d)
    ELSE <<Head(d)>> \o DictMergeFields(Tail(d), row)

RECURSIVE DictMergeAll(_, _)
DictMergeAll(d, rows) ==
    IF rows = <<>> THEN d
    ELSE DictMergeAll(DictMergeFields(d, Head(rows)), Tail(rows))

merge_resources_fieldwise(extracted, existing_csv) ==
    DictMergeAll(DictSetAll(<<>>, existing_csv), extracted)

\* merge_resources: the existing entries, overridden by the extracted ones.
merge_resources(extracted, existing_csv) ==
    DictSetAll(DictSetAll(<<>>, existing_csv), extracted)

\* Mutant of write_csv: sorted(..., reverse=True).
write_csv_descending(rows) ==
    LET s == sorted([i \in 1..Len(rows) |-> <<SortKey(rows[i]), rows[i]>>])
    IN  [i \in 1..Len(rows) |-> s[Len(rows) + 1 - i][2]]

\* writer.writerow([...]): the header write_csv writes.
write_csv_header ==
    <<"Type", "Server", "Category", "Name", "Description", "Status", "Path">>

\* write_csv: sorted_resources, the rows as they are written.
write_csv(rows) ==
    LET s == sorted([i \in 1..Len(rows) |-> <<SortKey(rows[i]), rows[i]>>])
    IN  [i \in 1..Len(rows) |-> s[i][2]]

VALID_TYPES ==
    {"Tool", "Command", "Tab", "Script", "Workflow", "Output", "Validator", "Schema"}

VALID_STATUS == {"active", "deprecated"}

\* CSVValidator._check_column_count
check_column_count(rows) ==
    SelectSeq([i \in 1..Len(rows) |-> <<"columns", i>>],
              LAMBDA e : Len(rows[e[2]]) # 7)

\* CSVValidator._check_duplicates: a row whose key an earlier row has.
check_duplicates(rows) ==
    SelectSeq([i \in 1..Len(rows) |-> <<"duplicate", i>>],
              LAMBDA e : \E j \in 1..(e[2] - 1) : RowKey(rows[j]) = RowKey(rows[e[2]]))

\* CSVValidator._check_valid_types
check_valid_types(rows) ==
    SelectSeq([i \in 1..Len(rows) |-> <<"type", i>>],
              LAMBDA e : rows[e[2]][1] \notin VALID_TYPES)

\* CSVValidator._check_valid_status
check_valid_status(rows) ==
    SelectSeq([i \in 1..Len(rows) |-> <<"status", i>>],
              LAMBDA e : rows[e[2]][6] \notin VALID_STATUS)

\* CSVValidator._check_row_count, on the number of rows of the table.
expected == 235

check_row_count(n) ==
    LET actual == n + 1
    IN  IF actual < expected - 50 THEN << <<"row count too low", actual>> >>
        ELSE IF actual > expected + 100 THEN << <<"row count too high", actual>> >>
        ELSE <<>>

\* CSVValidator.validate: the errors of the five checks, in order.
validate(rows, n) ==
    check_column_count(rows) \o check_duplicates(rows) \o check_valid_types(rows)
        \o check_valid_status(rows) \o check_row_count(n)

(***************************************************************************)
(* main() of update-resources-csv-old.py, one action per phase.            *)
(***************************************************************************)
\* Mutant of ExtractAll: extraction errors end the run with status 1.
ExtractAll_exit_on_errors ==
    /\ script = "update-resources-csv-old" /\ pc = "start"
    /\ resources' = scan
    /\ errors' = scan_errors
    /\ IF scan_errors # <<>>
       THEN pc' = "exit" /\ exit_status' = 1
       ELSE pc' = "merge" /\ exit_status' = exit_status
    /\ UNCHANGED <<inputs, reports, scaffold, files, validator_errors, stamps, wrote, written>>

\* extractor.extract_all(): the scanners' rows and their errors.
ExtractAll ==
    /\ script = "update-resources-csv-old" /\ pc = "start"
    /\ resources' = scan
    /\ errors' = scan_errors
    /\ pc' = "merge"
    /\ UNCHANGED <<inputs, reports, scaffold, files, validator_errors, stamps, exit_status,
                   wrote, written>>

\* if not args.fresh: resources = merge_resources(resources, existing)
MergeExisting ==
    /\ script = "update-resources-csv-old" /\ pc = "merge"
    /\ resources' = IF args.fresh THEN resources
                    ELSE merge_resources(resources,
                                         read_existing_csv_file(csv_file, encoding))
    /\ warnings' = IF args.fresh THEN warnings
                   ELSE warnings \o read_existing_csv_warnings(encoding)
    /\ pc' = "validate"
    /\ UNCHANGED <<inputs, unexpected, scaffold, files, errors, validator_errors, stamps,
                   exit_status, wrote, written>>

\* if args.validate or args.validate_only: validate, sys.exit(1) on errors.
Validate ==
    /\ script = "update-resources-csv-old" /\ pc = "validate"
    /\ IF args.validate \/ args.validate_only
       THEN LET errs == validate(resources, Len(resources) + rest_rows)
            IN  /\ validator_errors' = errs
                /\ IF errs # <<>>
                   THEN exit_status' = 1 /\ pc' = "exit"
                   ELSE exit_status' = exit_status /\ pc' = "write"
       ELSE /\ pc' = "write"
            /\ UNCHANGED <<validator_errors, exit_status>>
    /\ UNCHANGED <<inputs, reports, scaffold, files, resources, errors, stamps, wrote, written>>

\* if args.validate_only: return; write_csv(resources, dry_run=args.dry_run)
WriteCsv ==
    /\ script = "update-resources-csv-old" /\ pc = "write"
    /\ IF args.validate_only \/ args.dry_run
       THEN UNCHANGED <<wrote, written>>
       ELSE wrote' = TRUE /\ written' = write_csv(resources)
    /\ exit_status' = 0
    /\ pc' = "exit"
    /\ UNCHANGED <<inputs, reports, scaffold, files, resources, errors, validator_errors, stamps>>

\* The rows of the prior table and of a scan in the model: Command rows of
\* two servers.  A scanned row's category is the one _categorize_command
\* gives its name; a row of the prior table may carry any category.
PriorRows ==
    {<<"Command", s, c, "/build", d, "active", "p">> :
        s \in {"assistant", "coderef-docs"}, c \in {"General", "Release"},
        d \in {"", "D1"}}

ScanRows ==
    {<<"Command", s, "General", "/build", d, "active", "p">> :
        s \in {"assistant", "coderef-docs"}, d \in {"", "D1", "D2"}}

\* Rows for the runs with flags: one key, a valid and an invalid status.
FlagRows ==
    {<<"Command", "assistant", "General", "/build", "", st, "p">> :
        st \in {"active", "alias"}}

NoFlags == [dry_run |-> FALSE, validate_only |-> FALSE, validate |-> FALSE,
            fresh |-> FALSE]

Flags == [dry_run : BOOLEAN, validate_only : BOOLEAN, validate : BOOLEAN,
          fresh : BOOLEAN]

\* What every script starts with.
Fresh ==
    /\ pc = "start"
    /\ resources = <<>>
    /\ errors = <<>>
    /\ validator_errors = <<>>
    /\ stamps = <<>>
    /\ exit_status = -1
    /\ wrote = FALSE
    /\ written = <<>>
    /\ results = <<>>
    /\ ran = <<>>
    /\ warnings = <<>>
    /\ unexpected = <<>>

\* Rows of a prior table in either schema: seven fields, or nine with
\* Created and LastUpdated.
SchemaRows ==
    {<<"Command", "assistant", "General", n, "D1", "active", "p">> :
        n \in {"/build", "/deploy"}}
    \cup
    {<<"Command", "assistant", "General", n, "D1", "active", "p", "t1", "t2">> :
        n \in {"/build", "/deploy"}}

UpdaterInit ==
    /\ script = "update-resources-csv-old"
    /\ \/ /\ args = NoFlags
          /\ csv_file \in BoundedSeq(PriorRows, MaxRows)
          /\ scan \in BoundedSeq(ScanRows, MaxRows)
          /\ scan_errors = <<>>
          /\ rest_rows = 0
          /\ encoding = "utf-8"
       \/ /\ args \in Flags
          /\ csv_file \in BoundedSeq(FlagRows, MaxRows)
          /\ scan \in BoundedSeq(FlagRows, MaxRows)
          /\ scan_errors \in {<<>>, <<"Server file not found">>}
          /\ rest_rows \in {0, 200}
          /\ encoding = "utf-8"
       \/ /\ args = NoFlags
          /\ csv_file \in BoundedSeq(SchemaRows, MaxRows)
          /\ scan \in BoundedSeq(FlagRows, 1)
          /\ scan_errors = <<>>
          /\ rest_rows = 0
          /\ encoding \in Encodings
    /\ command_files = <<>>
    /\ directory = <<>>
    /\ files = <<>>
    /\ lookups = <<>>
    /\ fs = <<>>
    /\ roots = <<>>
    /\ Fresh

(***************************************************************************)
(* coderef/merge-and-dedupe.py                                             *)
(***************************************************************************)
DictKey(row) == <<row.Type, row.Server, row.Name>>

\* row.get(field, '')
Get(row, field) == IF field \in DOMAIN row THEN row[field] ELSE ""

is_duplicate_assistant_command(row, mcp_commands) ==
    IF row.Type # "Command" \/ row.Server # "assistant" THEN FALSE
    ELSE \E i \in 1..Len(mcp_commands) :
            /\ mcp_commands[i].Name = row.Name
            /\ mcp_commands[i].Server # "assistant"

\* The loop over merged: a row is kept when no earlier row has its key.
deduped(merged) ==
    LET first == SelectSeq([i \in 1..Len(merged) |-> i],
                           LAMBDA i : \A j \in 1..(i - 1) :
                                         DictKey(merged[j]) # DictKey(merged[i]))
    IN  [k \in 1..Len(first) |-> merged[first[k]]]

\* merged = tools_from_old + mcp_commands_from_old + scanned_filtered: the
\* sequence the dedupe loop iterates over.
merged_rows(scanned_resources, old_resources) ==
    LET tools_from_old == SelectSeq(old_resources, LAMBDA r : r.Type = "Tool")
        mcp_commands_from_old ==
            SelectSeq(old_resources,
                      LAMBDA r : r.Type = "Command" /\ r.Server # "assistant")
        scanned_filtered ==
            SelectSeq(scanned_resources,
                      LAMBDA row :
                        /\ ~is_duplicate_assistant_command(row, mcp_commands_from_old)
                        /\ row.Type # "Command")
    IN  tools_from_old \o mcp_commands_from_old \o scanned_filtered

merge_csvs(scanned_resources, old_resources) ==
    deduped(merged_rows(scanned_resources, old_resources))

\* read_csv: the rows as dicts keyed by the names of the header.  rows is
\* assigned once, before the loop, and an attempt that raises leaves in it
\* the rows it has appended.  The list
\* starts with utf-8, which decodes a file with a byte-order mark and leaves
\* U+FEFF in front of the first name of the header.
read_csv_encodings == <<"utf-8", "utf-8-sig", "utf-16", "cp1252">>

BomType == "<U+FEFF>Type"

read_csv(file, actual) ==
    LET r == try_encodings(read_csv_encodings, actual, FALSE)
    IN  IF r = "ok"
        THEN [rows |-> rows_of_failed_attempts(read_csv_encodings, actual, file)
                       \o file,
              raised |-> FALSE]
        ELSE IF r = "bom"
        THEN [rows |-> [i \in 1..Len(file) |->
                          [f \in (DOMAIN file[i] \ {"Type"}) \cup {BomType} |->
                              IF f = BomType THEN file[i].Type ELSE file[i][f]]],
              raised |-> FALSE]
        ELSE [rows |-> <<>>, raised |-> TRUE]

\* r['Type'] in the comprehensions of merge_csvs raises KeyError for a row
\* that has no such key.
KeyError(rows) == \E i \in 1..Len(rows) : "Type" \notin DOMAIN rows[i]

fieldnames ==
    {"Type", "Server", "Category", "Name", "Description", "Status", "Path",
     "Created", "LastUpdated"}

\* write_csv of merge-and-dedupe: sorted, every row with the nine fields.
write_csv_merge(rows) ==
    LET s == sorted([i \in 1..Len(rows) |->
                        << <<Get(rows[i], "Type"), Get(rows[i], "Server"),
                             Get(rows[i], "Category"), Get(rows[i], "Name")>>,
                           rows[i] >>])
    IN  [i \in 1..Len(rows) |-> [f \in fieldnames |-> Get(s[i][2], f)]]

\* resources = merge_csvs(): the two tables are read and merged; an exception
\* of read_csv or of merge_csvs ends the script with status 1.  The scanned
\* table is the one build-source-of-truth.py writes, in utf-8.
MergeCsvs ==
    /\ script = "merge-and-dedupe" /\ pc = "start"
    /\ LET scanned_resources == read_csv(scan, "utf-8")
           old_resources == read_csv(csv_file, encoding)
       IN  IF \/ scanned_resources.raised \/ old_resources.raised
              \/ KeyError(old_resources.rows) \/ KeyError(scanned_resources.rows)
           THEN /\ pc' = "exit"
                /\ exit_status' = 1
                /\ resources' = resources
           ELSE /\ resources' = merge_csvs(scanned_resources.rows, old_resources.rows)
                /\ pc' = "write"
                /\ exit_status' = exit_status
    /\ UNCHANGED <<inputs, reports, scaffold, files, errors, validator_errors, stamps,
                   wrote, written>>

WriteFinalCsv ==
    /\ script = "merge-and-dedupe" /\ pc = "write"
    /\ written' = write_csv_merge(resources)
    /\ wrote' = TRUE
    /\ exit_status' = 0
    /\ pc' = "exit"
    /\ UNCHANGED <<inputs, reports, scaffold, files, resources, errors, validator_errors, stamps>>

\* The old table has the seven columns of the old schema, the scanned table
\* the nine of the scanner.
OldRows ==
    {[Type |-> t, Server |-> s, Category |-> "General", Name |-> "/build",
      Description |-> d, Status |-> "active", Path |-> "p"] :
        t \in {"Command", "Tool", "Script"}, s \in {"assistant", "coderef-docs"},
        d \in {"", "D1"}}

ScannedRows ==
    {[Type |-> t, Server |-> s, Category |-> "General", Name |-> "/build",
      Description |-> "D2", Status |-> "active", Path |-> "p",
      Created |-> "t1", LastUpdated |-> "t2"] :
        t \in {"Command", "Tool", "Script"}, s \in {"assistant", "coderef-docs"}}

MergeInit ==
    /\ script = "merge-and-dedupe"
    /\ args = NoFlags
    /\ \/ /\ csv_file \in BoundedSeq(OldRows, MaxRows)
          /\ scan \in BoundedSeq(ScannedRows, MaxRows)
          /\ encoding = "utf-8"
       \/ /\ csv_file \in BoundedSeq({r \in OldRows : r.Description = "D1"}, MaxRows)
          /\ scan \in BoundedSeq({r \in ScannedRows : r.Type = "Script"}, 1)
          /\ encoding \in Encodings
    /\ scan_errors = <<>>
    /\ rest_rows = 0
    /\ command_files = <<>>
    /\ directory = <<>>
    /\ files = <<>>
    /\ lookups = <<>>
    /\ fs = <<>>
    /\ roots = <<>>
    /\ Fresh

(***************************************************************************)
(* fix-csv.py                                                              *)
(***************************************************************************)
MaxFixRows == 3

\* Known MCP servers that have duplicate commands
MCP_SERVERS ==
    {"coderef-docs", "coderef-personas", "coderef-testing", "coderef-workflow"}

\* find_mcp_command: (server, category, description) of the first Command row
\* of that name under a known MCP server, ("", "", "") when there is none.
find_mcp_command(rows, command_name) ==
    LET hits == SelectSeq(rows, LAMBDA row :
                    /\ Len(row) >= 7
                    /\ row[1] = "Command"
                    /\ row[4] = command_name
                    /\ row[2] \in MCP_SERVERS)
    IN  IF hits = <<>> THEN <<"", "", "">>
        ELSE <<hits[1][2], hits[1][3], hits[1][5]>>

\* Mutant of fix_row: the description of an alias is synthesized whether or
\* not the row had one.
fix_row_always_synthesizes(row, data_rows, cmd_files) ==
    IF Len(row) < 7 THEN row
    ELSE IF row[1] = "Command" /\ row[2] = "assistant"
    THEN LET mcp == find_mcp_command(data_rows, row[4])
             file == cmd_files[row[4]]
         IN  IF mcp[1] # ""
             THEN <<row[1], row[2], mcp[2], row[4],
                    IF mcp[3] # ""
                    THEN "Alias for " \o mcp[1] \o " - " \o mcp[3]
                    ELSE "Alias for " \o mcp[1] \o " command",
                    "alias", row[7]>>
             ELSE <<row[1], row[2], row[3], row[4],
                    IF row[5] = "" /\ file # <<>> THEN file[1] ELSE row[5],
                    row[6], row[7]>>
    ELSE SubSeq(row, 1, 7)

\* The body of the loop of fix_csv for one row.  cmd_files[name] is the first
\* line of ASSISTANT_COMMANDS/<name>.md as read_command_description returns
\* it, <<>> when the file does not exist.
fix_row(row, data_rows, cmd_files) ==
    IF Len(row) < 7 THEN row
    ELSE IF row[1] = "Command" /\ row[2] = "assistant"
    THEN LET mcp == find_mcp_command(data_rows, row[4])
             file == cmd_files[row[4]]
         IN  IF mcp[1] # ""
             THEN <<row[1], row[2], mcp[2], row[4],
                    IF row[5] = ""
                    THEN IF mcp[3] # ""
                         THEN "Alias for " \o mcp[1] \o " - " \o mcp[3]
                         ELSE "Alias for " \o mcp[1] \o " command"
                    ELSE row[5],
                    "alias", row[7]>>
             ELSE <<row[1], row[2], row[3], row[4],
                    IF row[5] = "" /\ file # <<>> THEN file[1] ELSE row[5],
                    row[6], row[7]>>
    ELSE SubSeq(row, 1, 7)

\* Mutant of fix_csv: a row marked alias is filtered out, as merge-and-dedupe
\* filters the duplicate assistant commands.
fix_csv_filter_aliases(data_rows, cmd_files) ==
    SelectSeq([i \in 1..Len(data_rows) |-> fix_row(data_rows[i], data_rows, cmd_files)],
              LAMBDA row : ~(Len(row) >= 7 /\ row[6] = "alias"))

\* fixed_rows, as fix_csv writes them: in the order of the input.
fix_csv(data_rows, cmd_files) ==
    [i \in 1..Len(data_rows) |-> fix_row(data_rows[i], data_rows, cmd_files)]

\* load_existing_csv: the rows of the file, or the exception raised after
\* the last encoding.  Each except clause sets rows = [].
load_existing_encodings == <<"utf-8-sig", "utf-8", "utf-16", "cp1252", "latin-1">>

load_existing_csv(file, actual) ==
    IF try_encodings(load_existing_encodings, actual, TRUE) \in {"ok", "bom"}
    THEN [rows |-> file, raised |-> FALSE]
    ELSE [rows |-> <<>>, raised |-> TRUE]

FixCsv ==
    /\ script = "fix-csv" /\ pc = "start"
    /\ warnings' = warnings \o attempt_warnings(load_existing_encodings, encoding)
    /\ LET loaded == load_existing_csv(csv_file, encoding)
       IN  IF loaded.raised
           THEN /\ exit_status' = 1
                /\ UNCHANGED <<wrote, written>>
           ELSE /\ written' = fix_csv(loaded.rows, command_files)
                /\ wrote' = TRUE
                /\ exit_status' = 0
    /\ pc' = "exit"
    /\ UNCHANGED <<inputs, unexpected, scaffold, files, resources, errors, validator_errors, stamps>>

\* Command rows of the assistant and of two other origins, one a known MCP
\* server and one not.
FixRows ==
    {<<"Command", "assistant", c, n, d, "active", "p">> :
        c \in {"General", "Release"}, n \in {"/build", "/deploy"}, d \in {"", "D1"}}
    \cup
    {<<"Command", s, c, "/build", d, "active", "p">> :
        s \in {"ci", "coderef-docs"}, c \in {"General", "Release"}, d \in {"", "D1"}}

\* Rows of a legacy table without the Path column: six fields.
ShortRows ==
    {<<"Command", "assistant", "General", n, "D1", "active">> :
        n \in {"/build", "/deploy"}}

FixInit ==
    /\ script = "fix-csv"
    /\ args = NoFlags
    /\ \/ /\ csv_file \in BoundedSeq(FixRows, MaxFixRows)
          /\ encoding = "utf-8"
       \/ /\ csv_file \in BoundedSeq(SchemaRows, MaxRows)
          /\ encoding \in Encodings
       \/ /\ csv_file \in BoundedSeq(SchemaRows \cup ShortRows, MaxRows)
          /\ \E i \in 1..Len(csv_file) : csv_file[i] \in ShortRows
          /\ encoding = "utf-8"
    /\ scan = <<>>
    /\ scan_errors = <<>>
    /\ rest_rows = 0
    /\ command_files \in [{"/build", "/deploy"} -> {<<>>, <<"D2">>}]
    /\ directory = <<>>
    /\ files = <<>>
    /\ lookups = <<>>
    /\ fs = <<>>
    /\ roots = <<>>
    /\ Fresh

(***************************************************************************)
(* update-resources-csv.py (v2.0): timestamps and generate_csv             *)
(***************************************************************************)
\* Python's None; the other values of the lookups are non-empty strings.
None == "None"

\* Python's truth value of an Optional[str].
Truthy(v) == v # None /\ v # ""

\* get_file_created / get_file_updated: stat, or now() when stat raises.
get_file_created(l) == IF l.stat_ok THEN "st_ctime" ELSE "now"

get_file_updated(l) == IF l.stat_ok THEN "st_mtime" ELSE "now"

\* Mutant of get_timestamps: updated is left as git gave it.
get_timestamps_no_updated_fallback(l) ==
    LET created1 == IF ~Truthy(l.git_created) /\ Truthy(l.yaml_date)
                    THEN l.yaml_date ELSE l.git_created
        created2 == IF ~Truthy(created1) THEN get_file_created(l) ELSE created1
    IN  <<created2, l.git_updated>>

\* TimestampExtractor.get_timestamps: Git > YAML frontmatter > Filesystem.
get_timestamps(l) ==
    LET created0 == l.git_created
        created1 == IF ~Truthy(created0) /\ Truthy(l.yaml_date)
                    THEN l.yaml_date ELSE created0
        created2 == IF ~Truthy(created1) THEN get_file_created(l) ELSE created1
        updated  == IF ~Truthy(l.git_updated) THEN get_file_updated(l)
                    ELSE l.git_updated
    IN  <<created2, updated>>

GetTimestamps ==
    /\ script = "get_timestamps" /\ pc = "start"
    /\ stamps' = get_timestamps(lookups)
    /\ pc' = "exit"
    /\ UNCHANGED <<inputs, reports, scaffold, files, resources, errors, validator_errors,
                   exit_status, wrote, written>>

\* What git (None: no answer), the front-matter (None: no date) and stat
\* (stat_ok = FALSE: it raises) answer for one path.
Lookups ==
    [git_created : {None, "git-first-commit"},
     git_updated : {None, "git-last-commit"},
     yaml_date   : {None, "yaml-date"},
     stat_ok     : BOOLEAN]

\* generate_csv: the three scans extend self.resources, which is sorted and
\* written.
generate_csv(self_resources, scanned) ==
    LET all == self_resources \o scanned
        s == sorted([i \in 1..Len(all) |-> <<SortKey(all[i]), all[i]>>])
    IN  [i \in 1..Len(all) |-> s[i][2]]

GenerateCsv ==
    /\ script = "update-resources-csv" /\ pc = "start"
    /\ resources' = generate_csv(resources, scan)
    /\ errors' = errors \o scan_errors
    /\ written' = resources'
    /\ wrote' = TRUE
    /\ exit_status' = 0
    /\ pc' = "exit"
    /\ UNCHANGED <<inputs, reports, scaffold, files, validator_errors, stamps>>

\* Rows of scan_commands and scan_mcp_tools, with their timestamps.  Two
\* rows of a scan share a key when two command directories that map to the
\* same server hold a file of the same stem, or when a server file holds two
\* Tool(name=...) calls of the same name.
GenRows ==
    {<<t, s, "General", "/build", d, "active", "p", "t1", "t2">> :
        t \in {"Command", "Tool"}, s \in {"assistant", "coderef-docs"},
        d \in {"", "D1"}}

GenerateInit ==
    /\ script = "update-resources-csv"
    /\ args = NoFlags
    /\ csv_file = <<>>
    /\ scan \in BoundedSeq(GenRows, MaxRows)
    /\ scan_errors \in {<<>>, <<"Server file not found">>}
    /\ rest_rows = 0
    /\ command_files = <<>>
    /\ directory = <<>>
    /\ files = <<>>
    /\ lookups = <<>>
    /\ encoding = "utf-8"
    /\ fs = <<>>
    /\ roots = <<>>
    /\ Fresh

TimestampInit ==
    /\ script \in {"get_timestamps", "add_resource"}
    /\ args = NoFlags
    /\ csv_file = <<>>
    /\ scan = <<>>
    /\ scan_errors = <<>>
    /\ rest_rows = 0
    /\ command_files = <<>>
    /\ directory = <<>>
    /\ files = <<>>
    /\ lookups \in Lookups
    /\ encoding = "utf-8"
    /\ fs = <<>>
    /\ roots = <<>>
    /\ Fresh

(***************************************************************************)
(* coderef/build-source-of-truth.py                                        *)
(***************************************************************************)
MaxFiles == 2

\* get_filesystem_timestamps
get_filesystem_timestamps(l) ==
    IF l.stat_ok THEN <<"st_ctime", "st_mtime">> ELSE <<"now", "now">>

\* The timestamps add_resource gives a resource: git's, or the filesystem's
\* when git lacks either of the two.
add_resource_stamps(l) ==
    LET git == <<l.git_created, l.git_updated>>
        both == IF ~Truthy(git[1]) \/ ~Truthy(git[2])
                THEN get_filesystem_timestamps(l) ELSE git
    IN  <<IF Truthy(both[1]) THEN both[1] ELSE "",
          IF Truthy(both[2]) THEN both[2] ELSE "">>

\* add_resource: the record appended to self.resources.
add_resource(type, name, path, l) ==
    [Type |-> type, Server |-> "papertrail", Category |-> "General",
     Name |-> name, Description |-> "", Status |-> "active", Path |-> path,
     Created |-> add_resource_stamps(l)[1],
     LastUpdated |-> add_resource_stamps(l)[2]]

AddResource ==
    /\ script = "add_resource" /\ pc = "start"
    /\ resources' = resources \o <<add_resource("Tab", "Commands", "p", lookups)>>
    /\ stamps' = <<resources'[1].Created, resources'[1].LastUpdated>>
    /\ pc' = "exit"
    /\ UNCHANGED <<inputs, reports, scaffold, files, errors, validator_errors, exit_status,
                   wrote, written>>

\* Mutant of scan_file: the try is around the loop, not in it, so that the
\* first file that raises ends the scan.
scan_file_try_around_loop(file, l) ==
    IF file.fails # "no"
    THEN [records |-> <<>>, errors |-> <<"Error reading " \o file.path>>,
          raised |-> TRUE]
    ELSE [records |-> [i \in 1..Len(file.names) |->
                          add_resource(file.kind, file.names[i], file.path, l)],
          errors |-> <<>>, raised |-> FALSE]

\* One pass of a scanner's loop over the files of its directory:
\*     try: read the file, parse it, add_resource(...) for what it holds
\*     except Exception as e: self.errors.append(...)
\* file.fails says where the body raises: "read" (open / decode), "parse"
\* (json.load, ast.parse, data.get on a non-object), "no".  Nothing is added
\* before the last statement that can raise.
scan_file(file, l) ==
    IF file.fails # "no"
    THEN [records |-> <<>>, errors |-> <<"Error reading " \o file.path>>,
          raised |-> FALSE]
    ELSE [records |-> [i \in 1..Len(file.names) |->
                          add_resource(file.kind, file.names[i], file.path, l)],
          errors |-> <<>>, raised |-> FALSE]

ScanFile ==
    /\ script = "build-source-of-truth" /\ pc = "start"
    /\ files # <<>>
    /\ LET r == scan_file(Head(files), lookups)
       IN  /\ resources' = resources \o r.records
           /\ errors' = errors \o r.errors
           /\ IF r.raised
              THEN pc' = "exit" /\ exit_status' = 1
              ELSE pc' = pc /\ exit_status' = exit_status
    /\ files' = Tail(files)
    /\ UNCHANGED <<inputs, reports, scaffold, validator_errors, stamps, wrote, written>>

ScanDone ==
    /\ script = "build-source-of-truth" /\ pc = "start"
    /\ files = <<>>
    /\ pc' = "exit"
    /\ exit_status' = 0
    /\ UNCHANGED <<inputs, reports, scaffold, files, resources, errors, validator_errors, stamps,
                   wrote, written>>

\* The scanners that add one record per file, and those that add one per
\* class or tool found in the file.
OnePerFile == {"Schema", "Command", "Script", "ResourceSheet"}

ManyPerFile == {"Validator", "Tool"}

FilesOf(kind) ==
    [kind : {kind}, path : {"f1", "f2", "f3"}, fails : {"no", "read", "parse"},
     names : IF kind \in OnePerFile THEN {<<"a">>}
             ELSE {<<>>, <<"a">>, <<"a", "b">>}]

ScanInit ==
    /\ script = "build-source-of-truth"
    /\ args = NoFlags
    /\ csv_file = <<>>
    /\ scan = <<>>
    /\ scan_errors = <<>>
    /\ rest_rows = 0
    /\ command_files = <<>>
    /\ \E kind \in OnePerFile \cup ManyPerFile :
          directory \in BoundedSeq(FilesOf(kind), MaxFiles)
    /\ \A i, j \in 1..Len(directory) :
          directory[i].path = directory[j].path => i = j
    /\ files = directory
    /\ lookups \in {l \in Lookups : l.yaml_date = None /\ l.stat_ok}
    /\ encoding = "utf-8"
    /\ fs = <<>>
    /\ roots = <<>>
    /\ Fresh

(***************************************************************************)
(* The scans over their configured roots: extract_all of the updater,      *)
(* generate_csv of update-resources-csv.py and scan_all of the scanner,    *)
(* called on one extractor object.  A root is a server file, a command     *)
(* directory, the scripts directory, the validators directory, the schemas *)
(* directory or a resource-sheet directory; roots[kind].names are the      *)
(* names found in it (a Tool(name=...) argument, a subject of the front    *)
(* matter, a class name, a file name), "" for an empty one.  "builtin" is  *)
(* a scanner that returns a list written in the code (tabs, workflows).    *)
(***************************************************************************)
MaxCalls == 2

\* The scanners each function calls, in order, by the kind of their root.
scan_order(s) ==
    IF s = "extract_all"
    THEN <<"server_file", "command_dir", "builtin", "validators_dir", "schemas_dir">>
    ELSE IF s = "generate_csv"
    THEN <<"sheet_dir", "server_file", "command_dir">>
    ELSE <<"server_file", "command_dir", "scripts_dir", "validators_dir",
           "schemas_dir", "sheet_dir", "builtin">>

\* The Type a scanner gives its records.
type_of(kind) ==
    IF kind = "server_file" THEN "Tool"
    ELSE IF kind = "command_dir" THEN "Command"
    ELSE IF kind = "scripts_dir" THEN "Script"
    ELSE IF kind = "validators_dir" THEN "Validator"
    ELSE IF kind = "schemas_dir" THEN "Schema"
    ELSE IF kind = "sheet_dir" THEN "ResourceSheet"
    ELSE "Tab"

\* if not <root>.exists(): the scanners that append "... not found" to
\* self.errors; every other scanner continues or returns in silence.
missing_is_error(s, kind) ==
    \/ s = "extract_all" /\ kind \in {"server_file", "validators_dir", "schemas_dir"}
    \/ s = "generate_csv" /\ kind = "server_file"

\* The names of the records a scanner makes of the names it finds.  A Tool
\* is appended under "if tool_name:" (the scanner's pattern [a-z_]+ matches
\* no empty name); the scanner replaces an empty subject of a resource
\* sheet by the stem of the file; generate_csv takes the subject as it is.
names_kept(s, kind, names) ==
    IF kind = "server_file" THEN SelectSeq(names, LAMBDA n : n # "")
    ELSE IF kind = "sheet_dir" /\ s = "scan_all"
    THEN [i \in 1..Len(names) |-> IF names[i] = "" THEN "stem" ELSE names[i]]
    ELSE names

\* The record of a name: a 7-tuple in the updater, a 9-tuple with the
\* timestamps in generate_csv, the dict of add_resource in the scanner.
record_of(s, kind, name, l) ==
    IF s = "extract_all"
    THEN <<type_of(kind), "papertrail", "General", name, "", "active", kind>>
    ELSE IF s = "generate_csv"
    THEN <<type_of(kind), "papertrail", "General", name, "", "active", kind,
           get_timestamps(l)[1], get_timestamps(l)[2]>>
    ELSE add_resource(type_of(kind), name, kind, l)

\* One scanner on its root.
scan_root(s, kind, root, l) ==
    IF ~root.exists
    THEN [records |-> <<>>,
          errors |-> IF missing_is_error(s, kind)
                     THEN << <<"not found", kind>> >> ELSE <<>>]
    ELSE [records |-> LET kept == names_kept(s, kind, root.names)
                      IN  [i \in 1..Len(kept) |-> record_of(s, kind, kept[i], l)],
          errors |-> <<>>]

builtin_root == [exists |-> TRUE, names |-> <<"Commands">>]

\* The scanners of kinds, one after the other.
RECURSIVE scan_roots(_, _, _, _)
scan_roots(s, kinds, rts, l) ==
    IF kinds = <<>> THEN [records |-> <<>>, errors |-> <<>>]
    ELSE LET kind == Head(kinds)
             first == scan_root(s, kind,
                                IF kind = "builtin" THEN builtin_root ELSE rts[kind], l)
             rest == scan_roots(s, Tail(kinds), rts, l)
         IN  [records |-> first.records \o rest.records,
              errors |-> first.errors \o rest.errors]

\* ResourceExtractor.extract_all: self.resources.extend(...) for each
\* scanner; self.resources is returned.
extract_all(self_resources, rts, l) ==
    self_resources \o scan_roots("extract_all", scan_order("extract_all"), rts, l).records

\* ResourceScanner.scan_all: each scanner appends to self.resources through
\* add_resource; self.resources is returned.
scan_all(self_resources, rts, l) ==
    self_resources \o scan_roots("scan_all", scan_order("scan_all"), rts, l).records

\* One call of extractor.extract_all(); results holds what each call
\* returned, as it was when the call returned.
CallExtractAll ==
    /\ script = "extract_all" /\ pc = "start"
    /\ Len(results) < MaxCalls
    /\ resources' = extract_all(resources, roots, lookups)
    /\ errors' = errors \o scan_roots(script, scan_order(script), roots, lookups).errors
    /\ results' = Append(results, resources')
    /\ UNCHANGED <<inputs, reports, fs, ran, pc, files, validator_errors, stamps,
                   exit_status, wrote, written>>

\* One call of extractor.generate_csv(): the scans, the sort and the write;
\* results holds the table each call wrote.
CallGenerateCsv ==
    /\ script = "generate_csv" /\ pc = "start"
    /\ Len(results) < MaxCalls
    /\ LET r == scan_roots(script, scan_order(script), roots, lookups)
       IN  /\ resources' = generate_csv(resources, r.records)
           /\ errors' = errors \o r.errors
    /\ written' = resources'
    /\ wrote' = TRUE
    /\ results' = Append(results, written')
    /\ UNCHANGED <<inputs, reports, fs, ran, pc, files, validator_errors, stamps,
                   exit_status>>

\* One call of scanner.scan_all().
CallScanAll ==
    /\ script = "scan_all" /\ pc = "start"
    /\ Len(results) < MaxCalls
    /\ resources' = scan_all(resources, roots, lookups)
    /\ errors' = errors \o scan_roots(script, scan_order(script), roots, lookups).errors
    /\ results' = Append(results, resources')
    /\ UNCHANGED <<inputs, reports, fs, ran, pc, files, validator_errors, stamps,
                   exit_status, wrote, written>>

\* What a root holds: nothing when it does not exist; a server file and a
\* resource sheet may hold an empty name.
RootStates(kind) ==
    {[exists |-> FALSE, names |-> <<>>]}
    \cup {[exists |-> TRUE, names |-> n] :
            n \in IF kind \in {"server_file", "sheet_dir"}
                  THEN {<<"a">>, <<"">>, <<"", "a">>}
                  ELSE {<<>>, <<"a">>}}

RootsOf(s) ==
    LET kinds == Range(scan_order(s)) \ {"builtin"}
    IN  {r \in [kinds -> UNION {RootStates(k) : k \in kinds}] :
            \A k \in kinds : r[k] \in RootStates(k)}

RootsInit ==
    /\ script \in {"extract_all", "generate_csv", "scan_all"}
    /\ args = NoFlags
    /\ csv_file = <<>>
    /\ scan = <<>>
    /\ scan_errors = <<>>
    /\ rest_rows = 0
    /\ command_files = <<>>
    /\ directory = <<>>
    /\ files = <<>>
    /\ lookups = [git_created |-> "git-first-commit", git_updated |-> "git-last-commit",
                  yaml_date |-> None, stat_ok |-> TRUE]
    /\ roots \in RootsOf(script)
    /\ encoding = "utf-8"
    /\ fs = <<>>
    /\ Fresh

(***************************************************************************)
(* The filesystem of the scaffolders.  A path under the project is the     *)
(* tuple of its parts, <<>> the project directory itself.  fs[p] is        *)
(* "absent", "dir", or the content of the file at p.                       *)
(***************************************************************************)
MaxRuns == 2

\* p.exists()
exists(f, p) == f[p] # "absent"

\* p and the directories above it, the project included.
Ancestors(p) == {SubSeq(p, 1, k) : k \in 0..Len(p)}

\* p.mkdir(parents=True, exist_ok=True) raises when p or a directory above
\* it is a file.
mkdir_raises(f, p) == \E q \in Ancestors(p) : f[q] \notin {"absent", "dir"}

\* p.mkdir(parents=True, exist_ok=True) when it does not raise.
mkdir(f, p) == [q \in DOMAIN f |-> IF q \in Ancestors(p) THEN "dir" ELSE f[q]]

(***************************************************************************)
(* setup-coderef-dir/setup_coderef_dirs.py                                 *)
(***************************************************************************)
\* structure: (parent_name, subpaths_list)
structure ==
    << << <<".coderef">>,
          << <<"reports", "complexity">>, <<"diagrams">>, <<"exports">> >> >>,
       << <<"coderef">>,
          << <<"workorder">>, <<"archived">>, <<"standards">>, <<"documents">>,
             <<"resource">>, <<"user">>, <<"notes">> >> >> >>

\* expected_dirs of test_create_structure_creates_all_dirs.
expected_dirs ==
    { <<".coderef", "reports", "complexity">>, <<".coderef", "diagrams">>,
      <<".coderef", "exports">>,
      <<"coderef", "workorder">>, <<"coderef", "archived">>,
      <<"coderef", "standards">>, <<"coderef", "documents">>,
      <<"coderef", "reference">>, <<"coderef", "user">>, <<"coderef", "notes">> }

\* Mutant of make_dir: a directory that exists is reported as created.
make_dir_reports_created(st, target) ==
    IF exists(st.fs, target)
    THEN [st EXCEPT !.status.created = Append(@, target)]
    ELSE IF mkdir_raises(st.fs, target)
    THEN [st EXCEPT !.status.errors = Append(@, target),
                    !.status.success = FALSE]
    ELSE [st EXCEPT !.fs = mkdir(@, target),
                    !.status.created = Append(@, target)]

\* try: if not target.exists(): target.mkdir(...); created.append(target)
\*      else: skipped.append(target)
\* except Exception as e: errors.append(str(e)); success = False
make_dir(st, target) ==
    IF exists(st.fs, target)
    THEN [st EXCEPT !.status.skipped = Append(@, target)]
    ELSE IF mkdir_raises(st.fs, target)
    THEN [st EXCEPT !.status.errors = Append(@, target),
                    !.status.success = FALSE]
    ELSE [st EXCEPT !.fs = mkdir(@, target),
                    !.status.created = Append(@, target)]

\* for sub in subdirs
RECURSIVE create_subdirs(_, _, _)
create_subdirs(st, parent_dir, subdirs) ==
    IF subdirs = <<>> THEN st
    ELSE create_subdirs(make_dir(st, parent_dir \o Head(subdirs)), parent_dir,
                        Tail(subdirs))

\* for parent, subdirs in structure: the parent, then (unless creating the
\* parent raised: continue) its subdirectories.
RECURSIVE create_parents(_, _)
create_parents(st, struct) ==
    IF struct = <<>> THEN st
    ELSE LET parent_dir == Head(struct)[1]
             raised == ~exists(st.fs, parent_dir) /\ mkdir_raises(st.fs, parent_dir)
             st1 == make_dir(st, parent_dir)
         IN  create_parents(IF raised THEN st1
                            ELSE create_subdirs(st1, parent_dir, Head(struct)[2]),
                            Tail(struct))

\* Mutant of create_structure: dry_run is not looked at.
create_structure_no_preview(f, dry_run) ==
    IF ~exists(f, <<>>)
    THEN [fs |-> f,
          status |-> [success |-> FALSE, created |-> <<>>,
                      errors |-> <<"Path not found">>]]
    ELSE create_parents([fs |-> f,
                         status |-> [success |-> TRUE, created |-> <<>>,
                                     skipped |-> <<>>, errors |-> <<>>]],
                        structure)

\* create_structure: the filesystem it leaves and the status dict it returns.
create_structure(f, dry_run) ==
    IF ~exists(f, <<>>) /\ ~dry_run
    THEN [fs |-> f,
          status |-> [success |-> FALSE, created |-> <<>>,
                      errors |-> <<"Path not found">>]]
    ELSE IF dry_run
    THEN [fs |-> f,
          status |-> [success |-> TRUE, created |-> <<>>,
                      skipped |-> <<>>, errors |-> <<>>]]
    ELSE create_parents([fs |-> f,
                         status |-> [success |-> TRUE, created |-> <<>>,
                                     skipped |-> <<>>, errors |-> <<>>]],
                        structure)

\* One call of create_structure(project_path, dry_run), as the test and
\* __main__ make it; __main__ exits with 1 when success is false.
CreateStructure ==
    /\ script = "setup_coderef_dirs" /\ pc = "start"
    /\ Len(results) < MaxRuns
    /\ \E dry_run \in BOOLEAN :
          LET r == create_structure(fs, dry_run)
          IN  /\ fs' = r.fs
              /\ results' = Append(results, [dry_run |-> dry_run, status |-> r.status])
              /\ exit_status' = IF r.status.success THEN 0 ELSE 1
    /\ UNCHANGED <<inputs, reports, ran, pc, files, resources, errors, validator_errors,
                   stamps, wrote, written>>

(***************************************************************************)
(* generate-coderef-directories.py                                         *)
(***************************************************************************)
\* The directories populate_coderef makes, in order.
populate_dirs ==
    << <<".coderef", "reports", "complexity">>, <<".coderef", "diagrams">>,
       <<".coderef", "exports">>,
       <<"coderef", "workorder">>, <<"coderef", "archived">>,
       <<"coderef", "standards">>, <<"coderef", "documents">>,
       <<"coderef", "reference">>, <<"coderef", "user">>, <<"coderef", "notes">> >>

\* The 16 outputs of populate_coderef, in order: the destination and how it
\* is produced (run_save, or the code written out in populate_coderef).
outputs ==
    << [dest |-> <<".coderef", "index.json">>, how |-> "run_save"],
       [dest |-> <<".coderef", "graph.json">>, how |-> "run_save"],
       [dest |-> <<".coderef", "context.json">>, how |-> "run_save"],
       [dest |-> <<".coderef", "context.md">>, how |-> "run_save"],
       [dest |-> <<".coderef", "reports", "patterns.json">>, how |-> "run_save"],
       [dest |-> <<".coderef", "reports", "coverage.json">>, how |-> "run_save"],
       [dest |-> <<".coderef", "reports", "validation.json">>, how |-> "run_save"],
       [dest |-> <<".coderef", "reports", "drift.json">>, how |-> "run_save"],
       [dest |-> <<".coderef", "reports", "complexity", "README.md">>, how |-> "note"],
       [dest |-> <<".coderef", "diagrams", "dependencies.mmd">>, how |-> "run_save"],
       [dest |-> <<".coderef", "diagrams", "dependencies.dot">>, how |-> "run_save"],
       [dest |-> <<".coderef", "diagrams", "calls.mmd">>, how |-> "run_save"],
       [dest |-> <<".coderef", "diagrams", "imports.mmd">>, how |-> "run_save"],
       [dest |-> <<".coderef", "exports", "graph.json">>, how |-> "run_save"],
       [dest |-> <<".coderef", "exports", "graph.jsonld">>, how |-> "run_save"],
       [dest |-> <<".coderef", "exports", "diagram-wrapped.md">>, how |-> "wrapped"] >>

\* run_command: the command fails, succeeds with blank output, or succeeds
\* with output.
Outcomes == {"fail", "empty", "out"}

\* Mutant of run_save: an existing destination is not looked at.
run_save_overwrite(f, output_file, dry, outcome) ==
    IF dry
    THEN [fs |-> f, ret |-> "True", ran |-> FALSE, raised |-> FALSE]
    ELSE IF outcome = "out"
    THEN IF mkdir_raises(f, SubSeq(output_file, 1, Len(output_file) - 1))
              \/ f[output_file] = "dir"
         THEN [fs |-> f, ret |-> "None", ran |-> TRUE, raised |-> TRUE]
         ELSE [fs |-> [mkdir(f, SubSeq(output_file, 1, Len(output_file) - 1))
                          EXCEPT ![output_file] = "out"],
               ret |-> "True", ran |-> TRUE, raised |-> FALSE]
    ELSE [fs |-> f, ret |-> "False", ran |-> TRUE, raised |-> FALSE]

\* run_save(cmd, output_file): the filesystem it leaves, what it returns,
\* whether it ran the command and whether it raised.
run_save(f, output_file, dry, outcome) ==
    IF dry
    THEN [fs |-> f, ret |-> "True", ran |-> FALSE, raised |-> FALSE]
    ELSE IF exists(f, output_file)
    THEN [fs |-> f, ret |-> "False", ran |-> FALSE, raised |-> FALSE]
    ELSE IF outcome = "out"
    THEN IF mkdir_raises(f, SubSeq(output_file, 1, Len(output_file) - 1))
         THEN [fs |-> f, ret |-> "None", ran |-> TRUE, raised |-> TRUE]
         ELSE [fs |-> [mkdir(f, SubSeq(output_file, 1, Len(output_file) - 1))
                          EXCEPT ![output_file] = "out"],
               ret |-> "True", ran |-> TRUE, raised |-> FALSE]
    ELSE [fs |-> f, ret |-> "False", ran |-> TRUE, raised |-> FALSE]

\* mkdir(parents=True, exist_ok=True) of the directories in turn, up to the
\* first that raises.
RECURSIVE make_dirs(_, _)
make_dirs(f, dirs) ==
    IF dirs = <<>> THEN [fs |-> f, raised |-> FALSE]
    ELSE IF mkdir_raises(f, Head(dirs)) THEN [fs |-> f, raised |-> TRUE]
    ELSE make_dirs(mkdir(f, Head(dirs)), Tail(dirs))

Generator == script = "generate-coderef-directories"

\* The output populate_coderef is at.
item == outputs[Len(results) + 1]

\* The start of populate_coderef: sys.exit(1) when the project does not
\* exist; the directories are made unless DRY_RUN.
PopulateDirs ==
    /\ Generator /\ pc = "start"
    /\ IF ~exists(fs, <<>>)
       THEN pc' = "exit" /\ exit_status' = 1 /\ fs' = fs
       ELSE IF args.dry_run
       THEN pc' = "outputs" /\ exit_status' = exit_status /\ fs' = fs
       ELSE LET r == make_dirs(fs, populate_dirs)
            IN  /\ fs' = r.fs
                /\ IF r.raised
                   THEN pc' = "exit" /\ exit_status' = 1
                   ELSE pc' = "outputs" /\ exit_status' = exit_status
    /\ UNCHANGED <<inputs, reports, results, ran, files, resources, errors,
                   validator_errors, stamps, wrote, written>>

\* if run_save(cmd, dest): stats['success'] += 1 else: stats['skipped'] += 1
RunSave ==
    /\ Generator /\ pc = "outputs"
    /\ Len(results) < Len(outputs)
    /\ item.how = "run_save"
    /\ \E outcome \in Outcomes :
          LET r == run_save(fs, item.dest, args.dry_run, outcome)
          IN  /\ fs' = r.fs
              /\ ran' = IF r.ran THEN Append(ran, item.dest) ELSE ran
              /\ results' = Append(results, r.ret)
              /\ IF r.raised
                 THEN pc' = "exit" /\ exit_status' = 1
                 ELSE pc' = pc /\ exit_status' = exit_status
    /\ UNCHANGED <<inputs, reports, files, resources, errors, validator_errors, stamps,
                   wrote, written>>

\* 9. reports/complexity/README.md, written unless it exists.
ComplexityNote ==
    /\ Generator /\ pc = "outputs"
    /\ Len(results) < Len(outputs)
    /\ item.how = "note"
    /\ fs' = IF args.dry_run \/ exists(fs, item.dest) THEN fs
             ELSE [fs EXCEPT ![item.dest] = "guide"]
    /\ results' = Append(results, "None")
    /\ UNCHANGED <<inputs, reports, ran, pc, files, resources, errors, validator_errors,
                   stamps, exit_status, wrote, written>>

\* 16. exports/diagram-wrapped.md, from diagrams/dependencies.mmd.
WrappedDiagram ==
    /\ Generator /\ pc = "outputs"
    /\ Len(results) < Len(outputs)
    /\ item.how = "wrapped"
    /\ LET deps_mmd == <<".coderef", "diagrams", "dependencies.mmd">>
       IN  IF args.dry_run
           THEN fs' = fs /\ results' = Append(results, "None")
           ELSE IF exists(fs, item.dest)
           THEN fs' = fs /\ results' = Append(results, "False")
           ELSE IF exists(fs, deps_mmd)
           THEN /\ fs' = [fs EXCEPT ![item.dest] = "wrapped " \o fs[deps_mmd]]
                /\ results' = Append(results, "True")
           ELSE fs' = fs /\ results' = Append(results, "False")
    /\ UNCHANGED <<inputs, reports, ran, pc, files, resources, errors, validator_errors,
                   stamps, exit_status, wrote, written>>

expected_coderef_dirs == {"reports", "diagrams", "exports"}

expected_visible_dirs ==
    {"workorder", "archived", "standards", "documents", "reference", "user", "notes"}

\* directory.iterdir(): the paths directly in the directory.
iterdir(f, dir) ==
    {q \in DOMAIN f : /\ Len(q) = Len(dir) + 1
                      /\ SubSeq(q, 1, Len(dir)) = dir
                      /\ f[q] # "absent"}

\* detect_unexpected_items: every file directly in the directory, and every
\* directory in it whose name is not an expected one.
detect_unexpected_items(f, dir, expected_subdirs) ==
    IF ~exists(f, dir) THEN [files |-> {}, dirs |-> {}]
    ELSE [files |-> {q[Len(q)] : q \in {r \in iterdir(f, dir) : f[r] # "dir"}},
          dirs  |-> {q[Len(q)] : q \in {r \in iterdir(f, dir) : f[r] = "dir"}}
                        \ expected_subdirs]

\* The summary: print_tree lists .coderef and coderef, and raises when one
\* of them is not a directory; then the unexpected items of the two are
\* detected and printed as "not created by this script".
Summary ==
    /\ Generator /\ pc = "outputs"
    /\ Len(results) = Len(outputs)
    /\ pc' = "exit"
    /\ IF fs[<<".coderef">>] = "dir" /\ fs[<<"coderef">>] = "dir"
       THEN /\ exit_status' = 0
            /\ unexpected' =
                  [coderef |-> detect_unexpected_items(fs, <<".coderef">>,
                                                       expected_coderef_dirs),
                   visible |-> detect_unexpected_items(fs, <<"coderef">>,
                                                       expected_visible_dirs)]
       ELSE /\ exit_status' = 1
            /\ unexpected' = unexpected
    /\ UNCHANGED <<inputs, warnings, scaffold, files, resources, errors,
                   validator_errors, stamps, wrote, written>>

\* The paths of the model.
Paths ==
    UNION {Ancestors(populate_dirs[i]) : i \in 1..Len(populate_dirs)}
    \cup {outputs[i].dest : i \in 1..Len(outputs)}
    \cup UNION {{structure[i][1] \o structure[i][2][j] : j \in 1..Len(structure[i][2])}
                 : i \in 1..Len(structure)}

\* A filesystem in which the paths of present hold what it says and every
\* other path is absent.
Filesystem(present) ==
    [q \in Paths |-> IF q \in DOMAIN present THEN present[q] ELSE "absent"]

\* Every path that is not absent is in a directory.
WellFormed(f) ==
    \A q \in DOMAIN f :
        (q # <<>> /\ f[q] # "absent") => f[SubSeq(q, 1, Len(q) - 1)] = "dir"

\* The project before a scaffolder runs: missing, or a directory in which
\* some of these paths are directories or files.
ScaffoldFilesystems ==
    {Filesystem(<<>>)}
    \cup
    {f \in {Filesystem(<<>> :> "dir" @@ <<".coderef">> :> a @@ <<"coderef">> :> b
                       @@ <<".coderef", "reports">> :> c
                       @@ <<"coderef", "notes">> :> d) :
                a \in {"absent", "dir", "old"}, b \in {"absent", "dir", "old"},
                c \in {"absent", "dir", "old"}, d \in {"absent", "dir", "old"}} :
        WellFormed(f)}

GeneratorFilesystems ==
    {Filesystem(<<>>),
     Filesystem(<<>> :> "dir"),
     Filesystem(<<>> :> "dir" @@ <<".coderef">> :> "old"),
     Filesystem(<<>> :> "dir" @@ <<".coderef">> :> "dir" @@ <<"coderef">> :> "dir"
                @@ <<".coderef", "index.json">> :> "old"
                @@ <<".coderef", "diagrams">> :> "dir"
                @@ <<".coderef", "diagrams", "dependencies.mmd">> :> "old")}

ScaffoldInit ==
    /\ \/ /\ script = "setup_coderef_dirs"
          /\ args = NoFlags
          /\ fs \in ScaffoldFilesystems
       \/ /\ script = "generate-coderef-directories"
          /\ args \in {[NoFlags EXCEPT !.dry_run = d] : d \in BOOLEAN}
          /\ fs \in GeneratorFilesystems
    /\ csv_file = <<>>
    /\ scan = <<>>
    /\ scan_errors = <<>>
    /\ rest_rows = 0
    /\ command_files = <<>>
    /\ directory = <<>>
    /\ files = <<>>
    /\ lookups = <<>>
    /\ encoding = "utf-8"
    /\ roots = <<>>
    /\ Fresh

Init == UpdaterInit \/ MergeInit \/ FixInit \/ GenerateInit \/ TimestampInit
            \/ ScanInit \/ RootsInit \/ ScaffoldInit

Next == ExtractAll \/ MergeExisting \/ Validate \/ WriteCsv
            \/ MergeCsvs \/ WriteFinalCsv
            \/ FixCsv
            \/ GenerateCsv \/ GetTimestamps
            \/ AddResource \/ ScanFile \/ ScanDone
            \/ CallExtractAll \/ CallGenerateCsv \/ CallScanAll
            \/ CreateStructure
            \/ PopulateDirs \/ RunSave \/ ComplexityNote \/ WrappedDiagram
            \/ Summary

Spec == Init /\ [][Next]_vars

(***************************************************************************)
(* Vocabulary of the properties.                                           *)
(***************************************************************************)
Updater == script = "update-resources-csv-old"

\* The updater has merged (the run is not --fresh and is past the merge).
Merged == Updater /\ ~args.fresh /\ pc \in {"validate", "write", "exit"}

MergeDone ==
    script = "merge-and-dedupe" /\ pc \in {"write", "exit"} /\ exit_status # 1

FixDone == script = "fix-csv" /\ pc = "exit" /\ exit_status = 0

TupleKeys(rows) == {RowKey(rows[i]) : i \in 1..Len(rows)}

DictKeys(rows) == {DictKey(rows[i]) : i \in 1..Len(rows)}

\* No two rows of the table share (Type, Server, Name).
UniqueTuples(rows) ==
    \A i, j \in 1..Len(rows) : RowKey(rows[i]) = RowKey(rows[j]) => i = j

UniqueDicts(rows) ==
    \A i, j \in 1..Len(rows) : DictKey(rows[i]) = DictKey(rows[j]) => i = j

\* The rows are in ascending order of (Type, Server, Category, Name).
OrderedTuples(rows) ==
    \A i, j \in 1..Len(rows) :
        i < j => ~TupleLess(SortKey(rows[j]), SortKey(rows[i]))

OrderedDicts(rows) ==
    \A i, j \in 1..Len(rows) :
        i < j => ~TupleLess(<<rows[j].Type, rows[j].Server, rows[j].Category, rows[j].Name>>,
                            <<rows[i].Type, rows[i].Server, rows[i].Category, rows[i].Name>>)

\* The last row of rows with the key.
LastWithKey(rows, key) ==
    rows[CHOOSE i \in 1..Len(rows) :
            /\ RowKey(rows[i]) = key
            /\ \A j \in (i + 1)..Len(rows) : RowKey(rows[j]) # key]

(***************************************************************************)
(* C1.  Identity uniqueness: in every final table (the result of           *)
(* merge_resources, the result of merge_csvs, the table generate_csv       *)
(* writes) no two rows share (Type, Server, Name).  generate_csv writes    *)
(* what the scans return without a pass that removes a repeated key.       *)
(***************************************************************************)
C1_IdentityUniqueness ==
    /\ Merged => UniqueTuples(resources)
    /\ MergeDone => UniqueDicts(resources)
    /\ (script = "update-resources-csv" /\ wrote) => UniqueTuples(written)

C3_Idempotence ==
    (/\ Updater /\ ~args.fresh /\ wrote
     /\ scan = csv_file
     /\ UniqueTuples(csv_file)
     /\ OrderedTuples(csv_file))
    => written = csv_file

\* A table of two rows reconciled with itself and written.
C3_Witness ==
    /\ Updater /\ ~args.fresh /\ wrote
    /\ scan = csv_file
    /\ Len(csv_file) = 2
    /\ UniqueTuples(csv_file)
    /\ OrderedTuples(csv_file)

(***************************************************************************)
(* C4.  Alias rule: after fix_csv, every Command row of the default origin *)
(* (assistant) for which a Command row of the same name exists under       *)
(* another origin, whatever its name, has status alias and the category of *)
(* such a row.                                                             *)
(***************************************************************************)
C4_AliasForAnyOrigin ==
    FixDone =>
        \A i \in 1..Len(csv_file) :
            LET row == csv_file[i]
                others == {j \in 1..Len(csv_file) :
                              /\ csv_file[j][1] = "Command"
                              /\ csv_file[j][4] = row[4]
                              /\ csv_file[j][2] # "assistant"}
            IN  (row[1] = "Command" /\ row[2] = "assistant" /\ others # {})
                => /\ written[i][6] = "alias"
                   /\ \E j \in others : written[i][3] = csv_file[j][3]

C6_NoKeyLost ==
    /\ Merged =>
          TupleKeys(read_existing_csv(csv_file)) \cup TupleKeys(scan)
              \subseteq TupleKeys(resources)
    /\ MergeDone =>
          DictKeys(csv_file) \cup DictKeys(scan) \subseteq DictKeys(resources)

(***************************************************************************)
(* C7.  Output ordering: every table that is written has its rows in       *)
(* ascending order of (Type, Server, Category, Name).  For fix_csv the      *)
(* claim is taken on an input that is itself in output order, so that a    *)
(* disorder of the output is the doing of fix_csv.                         *)
(***************************************************************************)
C7_OutputOrdered ==
    /\ (Updater /\ wrote) => OrderedTuples(written)
    /\ (script = "update-resources-csv" /\ wrote) => OrderedTuples(written)
    /\ (script = "merge-and-dedupe" /\ wrote) => OrderedDicts(written)
    /\ (FixDone /\ OrderedTuples(csv_file)) => OrderedTuples(written)

Bad(dir) == {i \in 1..Len(dir) : dir[i].fails # "no"}

RECURSIVE NamesOfGood(_)
NamesOfGood(dir) ==
    IF dir = <<>> THEN <<>>
    ELSE (IF Head(dir).fails = "no"
          THEN [i \in 1..Len(Head(dir).names) |->
                   <<Head(dir).path, Head(dir).names[i]>>]
          ELSE <<>>) \o NamesOfGood(Tail(dir))

C9_ScanResilient ==
    (script = "build-source-of-truth" /\ pc = "exit") =>
        /\ exit_status = 0
        /\ files = <<>>
        /\ Len(errors) = Cardinality(Bad(directory))
        /\ [i \in 1..Len(resources) |-> <<resources[i].Path, resources[i].Name>>]
              = NamesOfGood(directory)

\* The scan of a directory with a malformed schema file followed by a
\* well-formed one has ended with one record and one error.
C9_Witness ==
    /\ script = "build-source-of-truth" /\ pc = "exit"
    /\ Len(directory) = 2
    /\ directory[1].kind = "Schema" /\ directory[1].fails = "parse"
    /\ directory[2].kind = "Schema" /\ directory[2].fails = "no"
    /\ Len(resources) = 1
    /\ Len(errors) = 1

(***************************************************************************)
(* C10.  Exit status of the updater: non-zero only when validation was     *)
(* requested (--validate or --validate-only) and reported a violation;     *)
(* extraction errors alone leave it zero.                                  *)
(***************************************************************************)
C10_ExitStatus ==
    (Updater /\ pc = "exit") =>
        /\ exit_status \in {0, 1}
        /\ exit_status # 0 =>
              /\ args.validate \/ args.validate_only
              /\ validator_errors # <<>>
        /\ (errors # <<>> /\ validator_errors = <<>>) => exit_status = 0

\* A validated run with extraction errors and no violation has ended.
C10_Witness ==
    /\ Updater /\ pc = "exit"
    /\ args.validate
    /\ errors # <<>>
    /\ validator_errors = <<>>
    /\ exit_status = 0

(***************************************************************************)
(* Vocabulary of the properties on the files read.                         *)
(***************************************************************************)
\* No encoding of the reader's list reads the file.
Unreadable(encodings) ==
    try_encodings(encodings, encoding, TRUE) \notin {"ok", "bom"}

NineColumns ==
    <<"Type", "Server", "Category", "Name", "Description", "Status", "Path",
      "Created", "LastUpdated">>

(***************************************************************************)
(* C11.  A run of the updater that is asked to write (neither --dry-run    *)
(* nor --validate-only) writes the output table whatever extraction errors *)
(* or validation violations there are: it does not end before the write.   *)
(* With --validate, main() calls sys.exit(1) on a violation, before        *)
(* write_csv.                                                              *)
(***************************************************************************)
C11_WriteReached ==
    (Updater /\ pc = "exit" /\ ~args.dry_run /\ ~args.validate_only) => wrote

(***************************************************************************)
(* C12.  When no supported encoding reads the prior table, the run ends    *)
(* with a non-zero status before any merge or write: the updater (unless   *)
(* --fresh) does not get past the merge, and merge-and-dedupe does not     *)
(* reach its write.  read_existing_csv prints a warning and returns an     *)
(* empty dict, with which main() goes on.                                  *)
(***************************************************************************)
C12_UnreadableAborts ==
    /\ (Updater /\ ~args.fresh /\ Unreadable(read_existing_encodings)) =>
          /\ pc \notin {"validate", "write"}
          /\ pc = "exit" => (exit_status # 0 /\ ~wrote)
    /\ (script = "merge-and-dedupe" /\ Unreadable(read_csv_encodings)) =>
          /\ pc # "write"
          /\ pc = "exit" => (exit_status # 0 /\ ~wrote)

(***************************************************************************)
(* C13.  The reader of the prior table supports both schemas: every row of *)
(* a readable prior table that has 7 or 9 fields is in the prior map under *)
(* its (Type, Server, Name).  read_existing_csv keeps the rows for which   *)
(* len(row) == 7.                                                          *)
(***************************************************************************)
C13_BothSchemasLoaded ==
    (Merged /\ ~Unreadable(read_existing_encodings)) =>
        \A i \in 1..Len(csv_file) :
            Len(csv_file[i]) \in {7, 9} =>
                RowKey(csv_file[i])
                    \in TupleKeys(read_existing_csv_file(csv_file, encoding))

(***************************************************************************)
(* C14.  Every table written has the newest schema: a header of the nine   *)
(* columns and nine fields in every row, the Created and LastUpdated of an *)
(* input row carried to the output.  write_csv of the updater writes seven *)
(* columns, and fix_csv writes the first seven fields of each row.         *)
(***************************************************************************)
C14_NewestSchemaWritten ==
    /\ (Updater /\ wrote) =>
          /\ write_csv_header = NineColumns
          /\ \A i \in 1..Len(written) : Len(written[i]) = 9
    /\ (script = "merge-and-dedupe" /\ wrote) =>
          /\ fieldnames = Range(NineColumns)
          /\ \A i \in 1..Len(written) : DOMAIN written[i] = fieldnames
          /\ \A i \in 1..Len(resources) :
                \E j \in 1..Len(written) :
                    \A f \in fieldnames : written[j][f] = Get(resources[i], f)
    /\ FixDone =>
          \A i \in 1..Len(csv_file) :
              Len(csv_file[i]) = 9 =>
                  /\ Len(written[i]) = 9
                  /\ written[i][8] = csv_file[i][8]
                  /\ written[i][9] = csv_file[i][9]

(***************************************************************************)
(* C15.  A table in UTF-8 with a byte-order mark is read as the same table *)
(* without one: under either encoding the script does with the rows of the *)
(* file what it does with them when they are read from plain UTF-8.        *)
(* read_csv of merge-and-dedupe tries utf-8 before utf-8-sig, so that the  *)
(* first column of a file with the mark is not named Type.                 *)
(***************************************************************************)
C15_BomSameAsPlain ==
    encoding \in {"utf-8", "utf-8-sig"} =>
        /\ (script = "merge-and-dedupe" /\ pc \in {"write", "exit"}) =>
              /\ exit_status # 1
              /\ resources = merge_csvs(scan, csv_file)
        /\ Merged => resources = merge_resources(scan, read_existing_csv(csv_file))
        /\ (script = "fix-csv" /\ pc = "exit") =>
              /\ wrote
              /\ written = fix_csv(csv_file, command_files)

(***************************************************************************)
(* Vocabulary of the properties on the scaffolders.                        *)
(***************************************************************************)
Setup == script = "setup_coderef_dirs"

\* The call of create_structure that has just returned.
Last(seq) == seq[Len(seq)]

\* A call of create_structure is made in this step.
Called == Setup /\ Len(results') = Len(results) + 1

\* The parents and subdirectories of structure, in the order of the loops.
RECURSIVE StructureDirs(_)
StructureDirs(struct) ==
    IF struct = <<>> THEN <<>>
    ELSE <<Head(struct)[1]>>
         \o [j \in 1..Len(Head(struct)[2]) |-> Head(struct)[1] \o Head(struct)[2][j]]
         \o StructureDirs(Tail(struct))

(***************************************************************************)
(* C16.  After create_structure(project, dry_run=False) on an existing     *)
(* project directory (one with no file where a directory is wanted), the   *)
(* result has success = True and the ten directories of the fixed set      *)
(* exist, coderef/reference among them.  structure names coderef/resource. *)
(***************************************************************************)
C16_AllDirsCreated ==
    (/\ Setup /\ results # <<>> /\ ~Last(results).dry_run
     /\ fs[<<>>] = "dir"
     /\ \A q \in DOMAIN fs : fs[q] \in {"absent", "dir"})
    => /\ Last(results).status.success
       /\ \A d \in expected_dirs : fs[d] = "dir"

(***************************************************************************)
(* C17.  create_structure is idempotent: a call that follows a successful  *)
(* call on the same project returns success = True and no errors, creates  *)
(* nothing, reports every directory of structure in skipped and leaves the *)
(* filesystem as it was.                                                   *)
(***************************************************************************)
C17_SecondRunSkipsAll ==
    [][ (/\ Called /\ results # <<>>
         /\ ~Last(results).dry_run /\ Last(results).status.success
         /\ ~Last(results').dry_run)
        => /\ Last(results').status.success
           /\ Last(results').status.errors = <<>>
           /\ Last(results').status.created = <<>>
           /\ Last(results').status.skipped = StructureDirs(structure)
           /\ fs' = fs ]_vars

\* Two calls without dry_run have returned, the first having created
\* directories, the second having skipped all twelve.
C17_Witness ==
    /\ Setup /\ Len(results) = 2
    /\ ~results[1].dry_run /\ results[1].status.success
    /\ results[1].status.created # <<>>
    /\ ~results[2].dry_run
    /\ Len(results[2].status.skipped) = 12

(***************************************************************************)
(* C18.  Preview mode changes nothing: a call of create_structure with     *)
(* dry_run=True, and every step of populate_coderef with DRY_RUN set,      *)
(* leaves the filesystem as it is and runs no external command, whatever   *)
(* the filesystem holds; create_structure returns success = True.          *)
(***************************************************************************)
C18_PreviewChangesNothing ==
    /\ [](Setup => \A i \in 1..Len(results) :
                      results[i].dry_run => results[i].status.success)
    /\ [][ (\/ Called /\ Last(results').dry_run
            \/ Generator /\ args.dry_run)
           => (fs' = fs /\ ran' = ran) ]_vars

\* create_structure has returned from a dry run on a project directory
\* without .coderef.
C18_Witness ==
    /\ Setup /\ Len(results) = 1
    /\ results[1].dry_run
    /\ results[1].status.success
    /\ fs[<<>>] = "dir"
    /\ fs[<<".coderef">>] = "absent"

(***************************************************************************)
(* C19.  run_save never overwrites: with DRY_RUN off and the destination   *)
(* there, the command is not run, the filesystem is left as it is, and     *)
(* run_save returns False.                                                 *)
(***************************************************************************)
C19_RunSaveNeverOverwrites ==
    [][ (/\ Generator /\ pc = "outputs" /\ ~args.dry_run
         /\ Len(results') = Len(results) + 1
         /\ item.how = "run_save"
         /\ exists(fs, item.dest))
        => /\ ran' = ran
           /\ fs' = fs
           /\ Last(results') = "False" ]_vars

\* run_save has skipped index.json, which was there, and gone on.
C19_Witness ==
    /\ Generator /\ ~args.dry_run
    /\ Len(results) >= 2
    /\ results[1] = "False"
    /\ fs[<<".coderef", "index.json">>] = "old"
    /\ <<".coderef", "index.json">> \notin Range(ran)

(***************************************************************************)
(* C20.  The validator reports a status violation for a row exactly when   *)
(* its status is not one of active, deprecated, draft, alias.  VALID_STATUS *)
(* of the updater holds active and deprecated only.                        *)
(***************************************************************************)
C20_StatusViolations ==
    (Updater /\ (args.validate \/ args.validate_only) /\ pc \in {"write", "exit"}) =>
        \A i \in 1..Len(resources) :
            (<<"status", i>> \in Range(validator_errors))
                <=> resources[i][6] \notin {"active", "deprecated", "draft", "alias"}

(***************************************************************************)
(* C21.  Of the rows of the merged sequence that share (Type, Server,      *)
(* Name), the one in the final table is the last in iteration order: for   *)
(* merge_csvs the sequence is tools_from_old + mcp_commands_from_old +     *)
(* scanned_filtered, for merge_resources the existing rows followed by the *)
(* extracted ones.  The dedupe loop of merge_csvs keeps a key's first row. *)
(***************************************************************************)
C21_LastOfKeyKept ==
    /\ MergeDone =>
          LET seq == merged_rows(read_csv(scan, "utf-8").rows,
                                 read_csv(csv_file, encoding).rows)
          IN  \A i \in 1..Len(resources) :
                  \A j \in 1..Len(seq) :
                      (/\ DictKey(seq[j]) = DictKey(resources[i])
                       /\ \A k \in (j + 1)..Len(seq) :
                              DictKey(seq[k]) # DictKey(resources[i]))
                      => resources[i] = seq[j]
    /\ Merged =>
          LET seq == SelectSeq(csv_file, LAMBDA row : Len(row) = 7) \o scan
          IN  \A i \in 1..Len(resources) :
                  resources[i] = LastWithKey(seq, RowKey(resources[i]))

(***************************************************************************)
(* C22.  The description of an alias.  As claimed: an assistant Command    *)
(* that fix_csv marks alias has, when its own description was empty, the   *)
(* description "Alias for <server> <U+2014> <description>" of the matching row *)
(* (an em dash, written <U+2014> here), and its own description otherwise. *)
(***************************************************************************)
C22_AliasDescriptionDash ==
    FixDone =>
        \A i \in 1..Len(csv_file) :
            LET row == csv_file[i]
                mcp == find_mcp_command(csv_file, row[4])
            IN  (/\ Len(row) >= 7 /\ row[1] = "Command" /\ row[2] = "assistant"
                 /\ written[i][6] = "alias")
                => written[i][5] =
                      IF row[5] = ""
                      THEN "Alias for " \o mcp[1] \o " <U+2014> " \o mcp[3]
                      ELSE row[5]

\* C22 as amended: the synthesized description is "Alias for <server> -
\* <description>" with a hyphen, and "Alias for <server> command" when the
\* matching row has no description; a non-empty description is kept.
C22_AliasDescription ==
    FixDone =>
        \A i \in 1..Len(csv_file) :
            LET row == csv_file[i]
                mcp == find_mcp_command(csv_file, row[4])
            IN  (/\ Len(row) >= 7 /\ row[1] = "Command" /\ row[2] = "assistant"
                 /\ written[i][6] = "alias")
                => written[i][5] =
                      IF row[5] # "" THEN row[5]
                      ELSE IF mcp[3] # ""
                      THEN "Alias for " \o mcp[1] \o " - " \o mcp[3]
                      ELSE "Alias for " \o mcp[1] \o " command"

\* fix_csv has written the three cases: an alias whose description was
\* synthesized from a description, one synthesized without, and one kept.
C22_Witness ==
    /\ FixDone
    /\ \E i \in 1..Len(written) :
          csv_file[i][5] = "" /\ written[i][5] = "Alias for coderef-docs - D1"

C22_WitnessFallback ==
    /\ FixDone
    /\ \E i \in 1..Len(written) :
          csv_file[i][5] = "" /\ written[i][5] = "Alias for coderef-docs command"

(***************************************************************************)
(* C23.  created and updated are resolved independently: a value the       *)
(* version-control query gives for one of the two is the result for that   *)
(* field, whatever the query gives for the other (get_timestamps, and      *)
(* add_resource of the scanner).  add_resource takes both values from the  *)
(* filesystem when either is missing.                                      *)
(***************************************************************************)
C23_ResolvedIndependently ==
    (script \in {"get_timestamps", "add_resource"} /\ pc = "exit") =>
        /\ Truthy(lookups.git_created) => stamps[1] = lookups.git_created
        /\ Truthy(lookups.git_updated) => stamps[2] = lookups.git_updated

(***************************************************************************)
(* C27.  A row count outside the band around the target is a warning, not  *)
(* an error: a table that passes the four other checks has no validation   *)
(* error and a run with --validate or --validate-only on it does not exit  *)
(* with status 1, whatever its number of rows.  _check_row_count appends   *)
(* to the same error list as the other checks.                             *)
(***************************************************************************)
C27_RowCountIsWarning ==
    (/\ Updater /\ (args.validate \/ args.validate_only)
     /\ pc \in {"write", "exit"}
     /\ check_column_count(resources) = <<>>
     /\ check_duplicates(resources) = <<>>
     /\ check_valid_types(resources) = <<>>
     /\ check_valid_status(resources) = <<>>)
    => /\ validator_errors = <<>>
       /\ exit_status # 1

(***************************************************************************)
(* C28.  A row of the prior table with the wrong number of fields is       *)
(* dropped with a warning and does not end the run: it is not in the       *)
(* resulting table, a warning is recorded for it, and the well-formed rows *)
(* are processed (read_existing_csv of the updater, the short-row branch   *)
(* of fix_csv).  read_existing_csv skips the row and prints nothing;       *)
(* fix_csv appends the short row to the rows it writes.                    *)
(***************************************************************************)
C28_MalformedRowsDropped ==
    /\ (Merged /\ read_existing_csv_warnings(encoding) = <<>>) =>
          /\ \A i \in 1..Len(csv_file) :
                Len(csv_file[i]) # 7
                => /\ csv_file[i] \notin Range(resources)
                   /\ (warnings # <<>> \/ errors # scan_errors)
          /\ \A i \in 1..Len(csv_file) :
                Len(csv_file[i]) = 7 => RowKey(csv_file[i]) \in TupleKeys(resources)
    /\ FixDone =>
          /\ \A i \in 1..Len(csv_file) :
                Len(csv_file[i]) < 7
                => /\ csv_file[i] \notin Range(written)
                   /\ warnings # <<>>
          /\ \A i \in 1..Len(csv_file) :
                Len(csv_file[i]) >= 7
                => \E j \in 1..Len(written) : RowKey(written[j]) = RowKey(csv_file[i])

(***************************************************************************)
(* C29.  The rows a table reader returns are the rows of the first         *)
(* encoding of its list that decodes the whole file: the rows an attempt   *)
(* had been given when it raised its decode error are not among them a     *)
(* second time (read_csv of merge-and-dedupe, load_existing_csv of         *)
(* fix-csv, read_existing_csv of the updater).  read_csv does not empty    *)
(* rows between the attempts.                                              *)
(***************************************************************************)
C29_FirstDecodingOnly ==
    /\ (/\ MergeDone
        /\ try_encodings(read_csv_encodings, encoding, FALSE) = "ok")
       => read_csv(csv_file, encoding).rows = csv_file
    /\ FixDone => load_existing_csv(csv_file, encoding).rows = csv_file
    /\ (/\ Merged
        /\ try_encodings(read_existing_encodings, encoding, TRUE) \in {"ok", "bom"})
       => read_existing_csv_file(csv_file, encoding) = read_existing_csv(csv_file)

(***************************************************************************)
(* C30.  What populate_coderef reports as unexpected in .coderef/ or       *)
(* coderef/ is something the script does not create: no reported file is   *)
(* the destination of one of its 16 outputs and no reported directory is   *)
(* one of the expected set.  detect_unexpected_items reports every file    *)
(* that lies directly in the directory.                                    *)
(***************************************************************************)
C30_ReportedNotCreated ==
    (Generator /\ pc = "exit" /\ exit_status = 0) =>
        /\ \A name \in unexpected.coderef.files :
              \A i \in 1..Len(outputs) : outputs[i].dest # <<".coderef", name>>
        /\ \A name \in unexpected.visible.files :
              \A i \in 1..Len(outputs) : outputs[i].dest # <<"coderef", name>>
        /\ unexpected.coderef.dirs \cap expected_coderef_dirs = {}
        /\ unexpected.visible.dirs \cap expected_visible_dirs = {}

\* One of the scans over configured roots has been called.
RootScan == script \in {"extract_all", "generate_csv", "scan_all"}

\* The root a record came from, its name, type and server.
FieldOf(r, i, f) == IF script = "scan_all" THEN r[f] ELSE r[i]

\* The configured roots that do not exist.
MissingRoots == {k \in DOMAIN roots : ~roots[k].exists}

(***************************************************************************)
(* C24.  A configured root that does not exist gives no record and no      *)
(* entry in the error list of the scan, and the other roots are scanned:   *)
(* after one call of extract_all, generate_csv or scan_all the error list  *)
(* names no missing root, no record comes from one, and every root that    *)
(* exists and holds the name "a" has its record.  scan_mcp_tools,          *)
(* scan_validators and scan_schemas of the updater append "... not found". *)
(***************************************************************************)
C24_MissingRootIsNoError ==
    (RootScan /\ Len(results) = 1) =>
        /\ \A i \in 1..Len(errors) : errors[i][2] \notin MissingRoots
        /\ \A i \in 1..Len(resources) :
              FieldOf(resources[i], 7, "Path") \notin MissingRoots
        /\ \A k \in DOMAIN roots :
              (roots[k].exists /\ "a" \in Range(roots[k].names))
              => \E i \in 1..Len(resources) :
                    /\ FieldOf(resources[i], 7, "Path") = k
                    /\ FieldOf(resources[i], 4, "Name") = "a"

(***************************************************************************)
(* C25.  Every record of a scan has a non-empty Type, Server and Name, and *)
(* a candidate whose name is empty is recorded as an error instead: after  *)
(* one call, no record has an empty field of the three, and a root that    *)
(* holds an empty name has an entry in the error list.  generate_csv takes *)
(* an empty subject as the name of a resource sheet, and a Tool without a  *)
(* name is skipped with no entry.                                          *)
(***************************************************************************)
C25_RequiredFields ==
    (RootScan /\ Len(results) = 1) =>
        /\ \A i \in 1..Len(resources) :
              /\ FieldOf(resources[i], 1, "Type") # ""
              /\ FieldOf(resources[i], 2, "Server") # ""
              /\ FieldOf(resources[i], 4, "Name") # ""
        /\ \A k \in DOMAIN roots :
              (roots[k].exists /\ "" \in Range(roots[k].names))
              => \E i \in 1..Len(errors) : errors[i][2] = k

(***************************************************************************)
(* C26.  A scan keeps no state between calls: the second call of           *)
(* extract_all, generate_csv or scan_all on the same object, over the same *)
(* roots, gives the records the first call gave and adds to the error list *)
(* nothing the first call has not added.  Each appends to self.resources   *)
(* and self.errors, which __init__ alone empties.                          *)
(***************************************************************************)
C26_NoStateBetweenCalls ==
    (RootScan /\ Len(results) = MaxCalls) =>
        /\ results[2] = results[1]
        /\ Len(resources) = Len(results[1])

====
